---- MODULE Spec2Model ----
(***************************************************************************)
(* ots-sign: the bundle model of js/bundle.js (signers, fields, status),    *)
(* the sign operation that drives it, the signing message and signature    *)
(* check of js/crypto.js, and the Merkle commitment of js/state.js.        *)
(*                                                                         *)
(* JavaScript values: null is Null, a property that was never assigned    *)
(* reads as Undefined; the two are different values (x === null is false   *)
(* for undefined, and JSON.stringify drops undefined but writes null).     *)
(* Field geometry (type, page, x, y, width, height) takes no part in the   *)
(* protocol and is not carried in the model.                               *)
(***************************************************************************)
EXTENDS Integers, Sequences, FiniteSets, TLC

\* ---------------------------------------------------------------- bounds
MaxSigners == 2
MaxFields == 2

\* ------------------------------------------------------------ JS values
Null == "null"
Undefined == "undefined"

\* Date.now(): the wall clock is an input; two instants are sampled, and two
\* reads may return the same instant. new Date().toISOString() formats it.
NowValues == {1, 2}
toISOString(ms) == "1970-01-01T00:00:00.00" \o ToString(ms) \o "Z"

\* Math.random().toString(36).substr(2, 5)
RandomSuffixes == {"k3x9p"}

\* ------------------------------------------------------- string helpers
\* Strings that the code transforms are sequences of characters.
Whitespace == {" "}

toLowerCaseChar(c) ==
  CASE c = "A" -> "a"
    [] c = "B" -> "b"
    [] c = "X" -> "x"
    [] OTHER -> c

toLowerCase(s) == [i \in 1..Len(s) |-> toLowerCaseChar(s[i])]

RECURSIVE trimStart(_)
trimStart(s) ==
  IF s # <<>> /\ Head(s) \in Whitespace THEN trimStart(Tail(s)) ELSE s

RECURSIVE trimEnd(_)
trimEnd(s) ==
  IF s # <<>> /\ s[Len(s)] \in Whitespace
  THEN trimEnd(SubSeq(s, 1, Len(s) - 1))
  ELSE s

trim(s) == trimEnd(trimStart(s))

\* ---------------------------------------------------------------- inputs
Names == {"Alice"}
Emails == { <<"a", "@", "x">>, <<" ", "A", "@", "X", " ">> }

\* a captured field value (a data URL of the drawn signature)
Values == {"data:image/png"}

\* markSignerSigned's signatureData, as the sign operation hands it over
SignatureDatas ==
  { [publicKey |-> "ed25519:aa", signatureImage |-> "data:image/png",
     cryptoSignature |-> "sig-aa"] }

\* the uploaded PDF: its name and its bytes
PdfFiles == { [ name |-> "contract.pdf", size |-> 6, bytes |-> <<"%PDF", "-1">> ] }

\* what a signer types: a password
Passwords == {"correct horse", "hunter2"}

\* the password that belongs to the signers' e-mail address
OwnPassword == "correct horse"

\* ids that the id generators can produce
SignerIds == { "s" \o ToString(t) \o r : t \in NowValues, r \in RandomSuffixes }
FieldIds == { "f" \o ToString(t) \o r : t \in NowValues, r \in RandomSuffixes }

\* addField's fieldData: required may be left out
FieldDatas ==
  { [signerId |-> s] : s \in SignerIds }
  \cup { [signerId |-> s, required |-> FALSE] : s \in SignerIds }

\* updateField's updates: a partial field object
Updates == { [value |-> v] : v \in Values \cup {Null} }

\* ------------------------------------------------------------- bundle.js
colors == << "#e63946", "#457b9d", "#2a9d8f", "#e9c46a", "#9b5de5", "#f72585" >>

\* btoa / atob, on the byte groups the sample documents are made of
btoa3(group) ==
  CASE group = "%PDF" -> "JVBERg=="
    [] group = "-1" -> "LTE="
    [] group = "-2" -> "LTI="
    [] OTHER -> "?"

\* atob discards the bits of the last character that do not fill a byte:
\* "LTF=" decodes to the same two bytes as "LTE="
atob4(chars) ==
  CASE chars = "JVBERg==" -> "%PDF"
    [] chars = "LTE=" -> "-1"
    [] chars = "LTF=" -> "-1"
    [] chars = "LTI=" -> "-2"
    [] OTHER -> "?"

arrayBufferToBase64(buffer) == [i \in 1..Len(buffer) |-> btoa3(buffer[i])]
base64ToArrayBuffer(base64) == [i \in 1..Len(base64) |-> atob4(base64[i])]

VERSION == "1.0"

\* create(pdfFile): the bundle right after construction
create(pdfFile) ==
  [ version |-> VERSION,
    document |-> [ name |-> pdfFile.name, size |-> pdfFile.size,
                   data |-> arrayBufferToBase64(pdfFile.bytes) ],
    signers |-> <<>>,
    fields |-> <<>>,
    status |-> "draft",
    completedDocument |-> Null,
    timestamp |-> Null ]

addSigner(bundle, name, email, now, rnd) ==
  LET colorIndex == Len(bundle.signers) % Len(colors)
      signer == [ id |-> "s" \o ToString(now) \o rnd,
                  name |-> name,
                  email |-> trim(toLowerCase(email)),
                  color |-> colors[colorIndex + 1],
                  signed |-> FALSE,
                  signedAt |-> Null,
                  publicKey |-> Null,
                  signatureImage |-> Null,
                  cryptoSignature |-> Undefined ]
  IN [bundle EXCEPT !.signers = Append(@, signer)]

\* removeSigner without the cascade to the signer's fields
removeSigner_noCascade(bundle, signerId) ==
  [bundle EXCEPT !.signers = SelectSeq(@, LAMBDA s : s.id # signerId)]

removeSigner(bundle, signerId) ==
  [bundle EXCEPT
     !.signers = SelectSeq(@, LAMBDA s : s.id # signerId),
     !.fields = SelectSeq(@, LAMBDA f : f.signerId # signerId)]

addField(bundle, fieldData, now, rnd) ==
  LET field == [ id |-> "f" \o ToString(now) \o rnd,
                 signerId |-> fieldData.signerId,
                 required |-> IF "required" \in DOMAIN fieldData
                              THEN fieldData.required # FALSE
                              ELSE TRUE,
                 value |-> Null ]
  IN [bundle EXCEPT !.fields = Append(@, field)]

removeField(bundle, fieldId) ==
  [bundle EXCEPT !.fields = SelectSeq(@, LAMBDA f : f.id # fieldId)]

\* Array.prototype.find: the index of the first match, 0 when there is none
RECURSIVE findIndexFrom(_, _, _)
findIndexFrom(seq, id, i) ==
  IF i > Len(seq) THEN 0
  ELSE IF seq[i].id = id THEN i
  ELSE findIndexFrom(seq, id, i + 1)

find(seq, id) == findIndexFrom(seq, id, 1)

\* Object.assign(field, updates)
assign(field, updates) ==
  [ field EXCEPT
      !.value = IF "value" \in DOMAIN updates THEN updates.value ELSE @,
      !.signerId = IF "signerId" \in DOMAIN updates THEN updates.signerId ELSE @,
      !.required = IF "required" \in DOMAIN updates THEN updates.required ELSE @ ]

updateField(bundle, fieldId, updates) ==
  LET i == find(bundle.fields, fieldId)
  IN IF i # 0
     THEN [bundle EXCEPT !.fields[i] = assign(@, updates)]
     ELSE bundle

getFieldsForSigner(bundle, signerId) ==
  SelectSeq(bundle.fields, LAMBDA f : f.signerId = signerId)

\* !f.value: null and the empty string are both falsy
falsy(v) == v \in {Null, Undefined, ""}

getUnsignedFields_anySigner(bundle, signerId) ==
  SelectSeq(bundle.fields, LAMBDA f : falsy(f.value))

getUnsignedFields(bundle, signerId) ==
  SelectSeq(bundle.fields, LAMBDA f : f.signerId = signerId /\ falsy(f.value))

isComplete_truthy(bundle) ==
  \A i \in 1..Len(bundle.fields) :
    bundle.fields[i].required => ~falsy(bundle.fields[i].value)

isComplete(bundle) ==
  \A i \in 1..Len(bundle.fields) :
    bundle.fields[i].required => bundle.fields[i].value # Null

isSignerComplete(bundle, signerId) ==
  LET fields == getFieldsForSigner(bundle, signerId)
  IN Len(fields) > 0
     /\ \A i \in 1..Len(fields) : fields[i].required => fields[i].value # Null

\* updateStatus without the zero-signer branch ([].every(...) is true)
updateStatus_noEmptyCase(bundle) ==
  IF \A i \in 1..Len(bundle.signers) : bundle.signers[i].signed
  THEN [bundle EXCEPT !.status = "completed"]
  ELSE IF \E i \in 1..Len(bundle.signers) : bundle.signers[i].signed
  THEN [bundle EXCEPT !.status = "in_progress"]
  ELSE [bundle EXCEPT !.status = "draft"]

updateStatus(bundle) ==
  IF Len(bundle.signers) = 0
  THEN [bundle EXCEPT !.status = "draft"]
  ELSE IF \A i \in 1..Len(bundle.signers) : bundle.signers[i].signed
  THEN [bundle EXCEPT !.status = "completed"]
  ELSE IF \E i \in 1..Len(bundle.signers) : bundle.signers[i].signed
  THEN [bundle EXCEPT !.status = "in_progress"]
  ELSE [bundle EXCEPT !.status = "draft"]

\* markSignerSigned that flips signed instead of setting it
markSignerSigned_toggle(bundle, signerId, signatureData, now) ==
  LET i == find(bundle.signers, signerId)
      marked ==
        IF i # 0
        THEN [bundle EXCEPT
                !.signers[i].signed = ~@,
                !.signers[i].signedAt = toISOString(now),
                !.signers[i].publicKey = signatureData.publicKey,
                !.signers[i].signatureImage = signatureData.signatureImage,
                !.signers[i].cryptoSignature = signatureData.cryptoSignature]
        ELSE bundle
  IN updateStatus(marked)

markSignerSigned(bundle, signerId, signatureData, now) ==
  LET i == find(bundle.signers, signerId)
      marked ==
        IF i # 0
        THEN [bundle EXCEPT
                !.signers[i].signed = TRUE,
                !.signers[i].signedAt = toISOString(now),
                !.signers[i].publicKey = signatureData.publicKey,
                !.signers[i].signatureImage = signatureData.signatureImage,
                !.signers[i].cryptoSignature = signatureData.cryptoSignature]
        ELSE bundle
  IN updateStatus(marked)

getPendingSigners(bundle) ==
  SelectSeq(bundle.signers, LAMBDA s : ~s.signed)

\* JSON.parse(text): the members that load inspects are kept with their
\* JSON type, since a member may be absent (reads as undefined), null, a
\* string (possibly empty) or an object.
JUndefined == [ type |-> "undefined" ]
JNull == [ type |-> "null" ]
JString(s) == [ type |-> "string", value |-> s ]
JBase64(groups) == [ type |-> "base64", value |-> groups ]
JObject(members) == [ type |-> "object", members |-> members ]

\* !v is false for an object and for a non-empty string
truthy(v) ==
  CASE v.type = "object" -> TRUE
    [] v.type = "string" -> v.value # ""
    [] v.type = "base64" -> v.value # <<>>
    [] OTHER -> FALSE

\* v.key for an object v
member(v, key) ==
  IF key \in DOMAIN v.members THEN v.members[key] ELSE JUndefined

\* load(file), from the parsed text on: what it returns or the error it throws
load_noDataCheck(bundle) ==
  IF ~truthy(bundle.version)
  THEN [ error |-> "Invalid bundle: missing version" ]
  ELSE IF ~truthy(bundle.document)
       THEN [ error |-> "Invalid bundle: missing document" ]
       ELSE [ value |-> bundle ]

load(bundle) ==
  IF ~truthy(bundle.version)
  THEN [ error |-> "Invalid bundle: missing version" ]
  ELSE IF ~truthy(bundle.document) \/ ~truthy(member(bundle.document, "data"))
       THEN [ error |-> "Invalid bundle: missing document" ]
       ELSE [ value |-> bundle ]

\* -------------------------------------------------------------- crypto.js
\* Byte strings are written as text; PBKDF2, SHA-256 and Ed25519 are the
\* free (collision-free) constructors of their arguments.
RECURSIVE join(_)
join(chars) == IF chars = <<>> THEN "" ELSE Head(chars) \o join(Tail(chars))

SALT_PREFIX == "ots-sign-v1:"

\* deriveKeypair that lower-cases the e-mail address but does not trim it
deriveKeypair_noTrim(email, password) ==
  LET normalizedEmail == toLowerCase(email)
      salt == SALT_PREFIX \o join(normalizedEmail)
      seed == "pbkdf2(" \o password \o "," \o salt \o ")"
  IN [ publicKey |-> "pk(" \o seed \o ")", secretKey |-> "sk(" \o seed \o ")" ]

deriveKeypair(email, password) ==
  LET normalizedEmail == trim(toLowerCase(email))
      salt == SALT_PREFIX \o join(normalizedEmail)
      seed == "pbkdf2(" \o password \o "," \o salt \o ")"
  IN [ publicKey |-> "pk(" \o seed \o ")", secretKey |-> "sk(" \o seed \o ")" ]

sha256(data) == "sha256(" \o join(data) \o ")"

formatPublicKey(publicKey) == "ed25519:" \o publicKey

\* createSigningMessage that leaves the document hash out of the message
createSigningMessage_noDocumentHash(documentHash, email, timestamp) ==
  "{email:" \o join(trim(toLowerCase(email)))
    \o ",timestamp:" \o timestamp
    \o ",version:ots-sign-v1}"

\* createSigningMessage that leaves the timestamp out of the message
createSigningMessage_noTimestamp(documentHash, email, timestamp) ==
  "{documentHash:" \o documentHash
    \o ",email:" \o join(trim(toLowerCase(email)))
    \o ",version:ots-sign-v1}"

createSigningMessage(documentHash, email, timestamp) ==
  "{documentHash:" \o documentHash
    \o ",email:" \o join(trim(toLowerCase(email)))
    \o ",timestamp:" \o timestamp
    \o ",version:ots-sign-v1}"

sign(message, secretKey) == "sig(" \o message \o "," \o secretKey \o ")"

\* the keypairs that the passwords and e-mail addresses at hand derive
Keypairs == { deriveKeypair(e, p) : e \in Emails, p \in Passwords }

\* verify that accepts a signature made with any derived key
verify_anyKey(message, signature, publicKey) ==
  \E kp \in Keypairs : signature = sign(message, kp.secretKey)

\* nacl.sign.open accepts exactly the signature that the secret key of
\* publicKey gives for message; a key that no credentials derive accepts
\* nothing
verify(message, signature, publicKey) ==
  \E kp \in Keypairs :
    /\ kp.publicKey = publicKey
    /\ signature = sign(message, kp.secretKey)

\* Byte strings that are no signature and no key: of the right length (64
\* bytes for a signature, 32 for a public key) and one byte short.
MalformedSignatures == { "junk-64" }
ShortSignatures == { "junk-63" }
MalformedKeys == { "junk-32" }
ShortKeys == { "junk-31" }

signatureLength(signature) == IF signature \in ShortSignatures THEN 63 ELSE 64
keyLength(publicKey) == IF publicKey \in ShortKeys THEN 31 ELSE 32

\* What a call of verify gives: nacl.sign.open throws for a public key that
\* is not 32 bytes long ('bad public key size'); it is handed signature and
\* message in one array and reads the first 64 bytes as the signature, so a
\* signature of another length is not noticed and only fails to verify.
verifyOutcome(message, signature, publicKey) ==
  IF keyLength(publicKey) # 32
  THEN [ error |-> "bad public key size" ]
  ELSE [ value |-> verify(message, signature, publicKey) ]

\* parsePublicKey: the key whose formatted form is the argument; the result
\* for any other argument is a key that no credentials derive
parsePublicKey(formatted) ==
  IF \E kp \in Keypairs : formatPublicKey(kp.publicKey) = formatted
  THEN (CHOOSE kp \in Keypairs : formatPublicKey(kp.publicKey) = formatted).publicKey
  ELSE "pk(?)"

getPdfBytes(bundle) == base64ToArrayBuffer(bundle.document.data)

\* the PDF with the signatures embedded, as the caller hands it over
CompletedPdfs == { <<"%PDF", "-2">> }

\* setCompletedPdf(bundle, pdfBytes): completedDocument is null or the object
\* { data, completedAt }; the object is kept as its text, so that the member
\* holds strings only.
setCompletedPdf_replaceDocument(bundle, pdfBytes, now) ==
  [bundle EXCEPT !.document.data = arrayBufferToBase64(pdfBytes)]

setCompletedPdf(bundle, pdfBytes, now) ==
  [bundle EXCEPT !.completedDocument =
     "{data:" \o join(arrayBufferToBase64(pdfBytes))
       \o ",completedAt:" \o toISOString(now) \o "}"]

\* verification of signer i of a stored bundle (section 8): the signing
\* message is rebuilt from the hash of the stored document, the signer's
\* email and signedAt, and checked against the stored cryptoSignature and
\* publicKey
verifySigner(bundle, i) ==
  LET s == bundle.signers[i]
  IN verify(createSigningMessage(sha256(getPdfBytes(bundle)), s.email, s.signedAt),
            s.cryptoSignature,
            parsePublicKey(s.publicKey))

\* ------------------------------------------- crypto.js: hex conversions
\* A Uint8Array is a sequence of bytes 0..255; a hex string is a sequence of
\* one-character strings.
HexDigits ==
  << "0", "1", "2", "3", "4", "5", "6", "7", "8", "9", "a", "b", "c", "d", "e", "f" >>

\* bytes.map(b => b.toString(16).padStart(2, '0')).join('')
bytesToHex(bytes) ==
  [ k \in 1..(2 * Len(bytes)) |->
      IF k % 2 = 1
      THEN HexDigits[(bytes[(k + 1) \div 2] \div 16) + 1]
      ELSE HexDigits[(bytes[k \div 2] % 16) + 1] ]

\* the value parseInt gives a digit in radix 16 (either case), -1 for a
\* character that is no digit
hexDigitValue(c) ==
  CASE c \in {"0", "1", "2", "3", "4", "5", "6", "7", "8", "9"} ->
         (CHOOSE v \in 0..9 : HexDigits[v + 1] = c)
    [] c \in {"a", "A"} -> 10
    [] c \in {"b", "B"} -> 11
    [] c \in {"c", "C"} -> 12
    [] c \in {"d", "D"} -> 13
    [] c \in {"e", "E"} -> 14
    [] c \in {"f", "F"} -> 15
    [] OTHER -> -1

\* parseInt(twoChars, 16) stored into a Uint8Array: the longest prefix of
\* digits is parsed; NaN is stored as 0
parseInt16(chars) ==
  IF chars = <<>> \/ hexDigitValue(chars[1]) < 0 THEN 0
  ELSE IF Len(chars) < 2 \/ hexDigitValue(chars[2]) < 0
       THEN hexDigitValue(chars[1])
       ELSE 16 * hexDigitValue(chars[1]) + hexDigitValue(chars[2])

hexToBytes(hex) ==
  [ i \in 1..(Len(hex) \div 2) |-> parseInt16(SubSeq(hex, 2 * i - 1, 2 * i)) ]

\* ---------------------------------------------------- state.js: Merkle
\* UTF-16 code units of the characters a hex string is made of
charCode(c) ==
  IF hexDigitValue(c) \in 0..9 THEN 48 + hexDigitValue(c)
  ELSE IF c \in {"a", "b", "c", "d", "e", "f"} THEN 87 + hexDigitValue(c)
  ELSE IF c \in {"A", "B", "C", "D", "E", "F"} THEN 55 + hexDigitValue(c)
  ELSE 0

\* a < b on strings: lexicographic by code unit, a proper prefix is smaller
RECURSIVE stringLess(_, _)
stringLess(a, b) ==
  IF b = <<>> THEN FALSE
  ELSE IF a = <<>> THEN TRUE
  ELSE IF charCode(Head(a)) # charCode(Head(b))
       THEN charCode(Head(a)) < charCode(Head(b))
       ELSE stringLess(Tail(a), Tail(b))

RECURSIVE sumBytes(_)
sumBytes(bytes) == IF bytes = <<>> THEN 0 ELSE Head(bytes) + sumBytes(Tail(bytes))

\* SHA-256 as a collision-free digest: a leading byte computed from the
\* input (so that the order of two digests is unrelated to their structure),
\* then the input's length and the input itself. The digest determines the
\* input, and the concatenation of two digests determines both.
DigestOrders == 7
hash(data) ==
  << (3 * sumBytes(data) + Len(data)) % DigestOrders, Len(data) >> \o data

\* hashNodes that concatenates in the order given
hashNodes_positional(left, right) == hash(left \o right)

hashNodes(left, right) ==
  IF stringLess(bytesToHex(left), bytesToHex(right))
  THEN hash(left \o right)
  ELSE hash(right \o left)

\* one pass of buildTree's inner loop over the layer `current`
RECURSIVE nextLayer(_)
nextLayer(current) ==
  IF current = <<>> THEN <<>>
  ELSE IF Len(current) >= 2
       THEN << hashNodes(current[1], current[2]) >> \o nextLayer(SubSeq(current, 3, Len(current)))
       ELSE << current[1] >>

\* buildTree's while loop: the layers from `current` upward
RECURSIVE buildLayers(_)
buildLayers(current) ==
  IF Len(current) > 1
  THEN << current >> \o buildLayers(nextLayer(current))
  ELSE << current >>

\* buildTree that stops after the first pass of its loop
buildTree_onePass(leaves) ==
  IF Len(leaves) = 0 THEN [ root |-> Null, layers |-> <<>> ]
  ELSE LET layers == IF Len(leaves) > 1
                     THEN << leaves, nextLayer(leaves) >>
                     ELSE << leaves >>
       IN [ root |-> layers[Len(layers)][1], layers |-> layers ]

\* buildTree that leaves out an unpaired trailing leaf
buildTree_dropOdd(leaves) ==
  IF Len(leaves) = 0 THEN [ root |-> Null, layers |-> <<>> ]
  ELSE LET paired == IF Len(leaves) > 1 /\ Len(leaves) % 2 = 1
                     THEN SubSeq(leaves, 1, Len(leaves) - 1)
                     ELSE leaves
           layers == buildLayers(paired)
       IN [ root |-> layers[Len(layers)][1], layers |-> layers ]

buildTree(leaves) ==
  IF Len(leaves) = 0 THEN [ root |-> Null, layers |-> <<>> ]
  ELSE LET layers == buildLayers(leaves)
       IN [ root |-> layers[Len(layers)][1], layers |-> layers ]

\* getProof's loop from layer i (0-based, as in the source) with running idx
RECURSIVE getProofFrom(_, _, _)
getProofFrom(layers, i, idx) ==
  IF i >= Len(layers) - 1 THEN <<>>
  ELSE LET layer == layers[i + 1]
           isRight == idx % 2 = 1
           siblingIdx == IF isRight THEN idx - 1 ELSE idx + 1
           step == IF siblingIdx < Len(layer)
                   THEN << [ hash |-> bytesToHex(layer[siblingIdx + 1]),
                             position |-> IF isRight THEN "left" ELSE "right" ] >>
                   ELSE <<>>
       IN step \o getProofFrom(layers, i + 1, idx \div 2)

\* getProof whose loop starts at the second layer
getProof_fromSecondLayer(layers, index) == getProofFrom(layers, 1, index)

getProof(layers, index) == getProofFrom(layers, 0, index)

\* verifyProof's loop: the running value after the steps of proof
RECURSIVE verifyFold(_, _)
verifyFold(current, proof) ==
  IF proof = <<>> THEN current
  ELSE LET step == Head(proof)
           sibling == hexToBytes(step.hash)
       IN verifyFold(IF step.position = "left"
                     THEN hashNodes(sibling, current)
                     ELSE hashNodes(current, sibling),
                     Tail(proof))

\* verifyProof that compares the first byte only
verifyProof_firstByte(leafHash, proof, root) ==
  SubSeq(bytesToHex(verifyFold(leafHash, proof)), 1, 2) = SubSeq(bytesToHex(root), 1, 2)

\* leafHash and root are passed as bytes (the typeof ... === 'string'
\* branches are not taken)
verifyProof(leafHash, proof, root) ==
  bytesToHex(verifyFold(leafHash, proof)) = bytesToHex(root)

\* ------------------------------ state.js: hashDocument and hashSigner
\* what a tampering party writes into a stored bundle
TamperedStrings == { "mallory", "m@x", "#000000", "ed25519:bb", "sig-bb",
                     "1970-01-01T00:00:00.009Z", "data:image/gif" }
TamperedDatas == { << "JVBERg==", "LTI=" >>, << "JVBERg==", "LTF=" >> }

\* JSON.stringify of a string value
quote(v) == "\"" \o v \o "\""

\* JSON.stringify of an object: a member whose value is undefined is left
\* out, null is written as null, a string is quoted. The text is kept as the
\* sequence of its tokens.
RECURSIVE stringifyMembers(_, _)
stringifyMembers(members, first) ==
  IF members = <<>> THEN <<>>
  ELSE LET m == Head(members)
       IN IF m[2] = Undefined
          THEN stringifyMembers(Tail(members), first)
          ELSE (IF first THEN <<>> ELSE << "," >>)
               \o << quote(m[1]) \o ":", IF m[2] = Null THEN "null" ELSE quote(m[2]) >>
               \o stringifyMembers(Tail(members), FALSE)

stringify(members) == << "{" >> \o stringifyMembers(members, TRUE) \o << "}" >>

\* the strings a signer record can hold: what markSignerSigned is handed,
\* what the sign operation records, and what a tampering party writes
RecordStrings ==
  { join(trim(toLowerCase(e))) : e \in Emails }
  \cup { sd.publicKey : sd \in SignatureDatas }
  \cup { sd.cryptoSignature : sd \in SignatureDatas }
  \cup { toISOString(t) : t \in NowValues }
  \cup { formatPublicKey(kp.publicKey) : kp \in Keypairs }
  \cup { sign(createSigningMessage(sha256(pdfFile.bytes), e, toISOString(t)),
             kp.secretKey) :
           pdfFile \in PdfFiles, e \in Emails, t \in NowValues, kp \in Keypairs }
  \cup TamperedStrings

TextTokens ==
  { "{", "}", ",", "null", "%PDF", "-1", "-2", "?" }
  \cup { quote(k) \o ":" : k \in { "email", "publicKey", "signature", "signedAt" } }
  \cup { quote(v) : v \in RecordStrings }

RECURSIVE SetToSeq(_)
SetToSeq(set) ==
  IF set = {} THEN <<>>
  ELSE LET x == CHOOSE y \in set : TRUE IN << x >> \o SetToSeq(set \ {x})

TokenTable == SetToSeq(TextTokens)

\* the byte value that stands for a token of text or a group of bytes: one
\* value per token
tokenByte(t) == CHOOSE k \in 1..Len(TokenTable) : TokenTable[k] = t

\* new TextEncoder().encode(text), and the bytes of a byte group
encode(tokens) == [ i \in 1..Len(tokens) |-> tokenByte(tokens[i]) ]

hashDocument(pdfBytes) == hash(encode(pdfBytes))

\* signer.email is a string: its characters are joined for the text
emailText(email) == join(email)

hashSigner(signer) ==
  hash(encode(stringify(<< << "email", emailText(signer.email) >>,
                           << "publicKey", signer.publicKey >>,
                           << "signature", signer.cryptoSignature >>,
                           << "signedAt", signer.signedAt >> >>)))

\* the leaf set of section 4.5: the document hash, then one hash per signer
\* record in bundle order
commitmentLeaves(bundle) ==
  << hashDocument(getPdfBytes(bundle)) >>
  \o [ i \in 1..Len(bundle.signers) |-> hashSigner(bundle.signers[i]) ]

commitmentRoot(bundle) == buildTree(commitmentLeaves(bundle)).root

\* ----------------------------------------------------------------- state
\* bundle          the bundle object every operation mutates
\* signing         the sign operation in flight (pc = "idle" when there is none)
\* addedAfterSign  history: a signer was added after some signer had signed
\* merkle          the Merkle commitment being built, proved and verified
\*                 (pc = "none" when there is none)
\* call            the last call of a function that returns a result:
\*                 its name, its arguments and what it returned or threw
\* store           state.js's State: its state object (the UI mode and
\*                 selection; the bundle as an opaque object, named by its
\*                 document), the listeners in the order of their
\*                 subscription, and what the last notification did
VARIABLES bundle, signing, addedAfterSign, merkle, call, store

vars == << bundle, signing, addedAfterSign, merkle, call, store >>

Idle == [ pc |-> "idle" ]
NoMerkle == [ pc |-> "none" ]
NoCall == [ op |-> "none" ]
InitialState ==
  [ bundle |-> Null,
    ui |-> [ mode |-> "landing", selectedField |-> Null, activeTool |-> Null ] ]
NoListeners ==
  [ state |-> InitialState, listeners |-> <<>>, handles |-> {},
    invoked |-> <<>>, errors |-> <<>> ]

Init ==
  /\ bundle \in { create(pdfFile) : pdfFile \in PdfFiles }
  /\ signing = Idle
  /\ addedAfterSign = FALSE
  /\ merkle = NoMerkle
  /\ call = NoCall
  /\ store = NoListeners

\* ------------------------------------------------ the calls, as actions
AddSignerCall(name, email, now, rnd) ==
  /\ Len(bundle.signers) < MaxSigners
  /\ bundle' = addSigner(bundle, name, email, now, rnd)

RemoveSignerCall(signerId) ==
  bundle' = removeSigner(bundle, signerId)

AddFieldCall(fieldData, now, rnd) ==
  /\ Len(bundle.fields) < MaxFields
  /\ bundle' = addField(bundle, fieldData, now, rnd)

RemoveFieldCall(fieldId) ==
  bundle' = removeField(bundle, fieldId)

UpdateFieldCall(fieldId, updates) ==
  bundle' = updateField(bundle, fieldId, updates)

MarkSignerSignedCall(signerId, signatureData, now) ==
  bundle' = markSignerSigned(bundle, signerId, signatureData, now)

UpdateStatusCall ==
  bundle' = updateStatus(bundle)

\* ------------------------------ Spec: any sequence of bundle operations
AddSigner ==
  /\ \E name \in Names, email \in Emails, now \in NowValues, rnd \in RandomSuffixes :
       AddSignerCall(name, email, now, rnd)
  /\ UNCHANGED << signing, addedAfterSign, merkle, call, store >>

RemoveSigner ==
  /\ \E signerId \in SignerIds : RemoveSignerCall(signerId)
  /\ UNCHANGED << signing, addedAfterSign, merkle, call, store >>

AddField ==
  /\ \E fieldData \in FieldDatas, now \in NowValues, rnd \in RandomSuffixes :
       AddFieldCall(fieldData, now, rnd)
  /\ UNCHANGED << signing, addedAfterSign, merkle, call, store >>

RemoveField ==
  /\ \E fieldId \in FieldIds : RemoveFieldCall(fieldId)
  /\ UNCHANGED << signing, addedAfterSign, merkle, call, store >>

UpdateField ==
  /\ \E fieldId \in FieldIds, updates \in Updates : UpdateFieldCall(fieldId, updates)
  /\ UNCHANGED << signing, addedAfterSign, merkle, call, store >>

MarkSignerSigned ==
  /\ \E signerId \in SignerIds, signatureData \in SignatureDatas, now \in NowValues :
       MarkSignerSignedCall(signerId, signatureData, now)
  /\ UNCHANGED << signing, addedAfterSign, merkle, call, store >>

UpdateStatus ==
  /\ UpdateStatusCall
  /\ UNCHANGED << signing, addedAfterSign, merkle, call, store >>

Next ==
  \/ AddSigner
  \/ RemoveSigner
  \/ AddField
  \/ RemoveField
  \/ UpdateField
  \/ MarkSignerSigned
  \/ UpdateStatus

Spec == Init /\ [][Next]_vars

\* ------------------------------------ the sign operation (section 4.4)
\* One sign operation for signer S, step by step; every awaited step is a
\* suspension point, and the operation can fail or be cancelled at each.
\*   derive -> hash -> fill -> message -> sign -> record -> idle
SignStart(signerId, email, password, value) ==
  /\ signing.pc = "idle"
  /\ find(bundle.signers, signerId) # 0
  /\ signing' = [ pc |-> "derive", signerId |-> signerId, email |-> email,
                  password |-> password, value |-> value, before |-> bundle ]
  /\ UNCHANGED << bundle, addedAfterSign, merkle, call, store >>

\* (1) derive S's keypair from the entered credentials
SignDerive ==
  /\ signing.pc = "derive"
  /\ signing' = [ pc |-> "hash", signerId |-> signing.signerId,
                  value |-> signing.value, before |-> signing.before,
                  keypair |-> deriveKeypair(signing.email, signing.password) ]
  /\ UNCHANGED << bundle, addedAfterSign, merkle, call, store >>

\* (2) hash the original document bytes
SignHash ==
  /\ signing.pc = "hash"
  /\ signing' = [ pc |-> "fill", signerId |-> signing.signerId,
                  value |-> signing.value, before |-> signing.before,
                  keypair |-> signing.keypair,
                  documentHash |-> sha256(getPdfBytes(bundle)) ]
  /\ UNCHANGED << bundle, addedAfterSign, merkle, call, store >>

\* (3) fill each of S's unfilled required fields with the captured value
RECURSIVE fillFields(_, _, _)
fillFields(b, todo, value) ==
  IF todo = <<>> THEN b
  ELSE fillFields(updateField(b, Head(todo).id, [value |-> value]), Tail(todo), value)

SignFill ==
  /\ signing.pc = "fill"
  /\ bundle' = fillFields(bundle,
                          SelectSeq(getUnsignedFields(bundle, signing.signerId),
                                    LAMBDA f : f.required),
                          signing.value)
  /\ signing' = [ signing EXCEPT !.pc = "message" ]
  /\ UNCHANGED << addedAfterSign, merkle, call, store >>

\* (4) build the signing message over the hash, S.email and a fresh timestamp
SignMessage(now) ==
  /\ signing.pc = "message"
  /\ LET i == find(bundle.signers, signing.signerId)
     IN /\ i # 0
        /\ signing' = [ pc |-> "sign", signerId |-> signing.signerId,
                        value |-> signing.value, before |-> signing.before,
                        keypair |-> signing.keypair,
                        message |-> createSigningMessage(signing.documentHash,
                                                         bundle.signers[i].email,
                                                         toISOString(now)) ]
  /\ UNCHANGED << bundle, addedAfterSign, merkle, call, store >>

\* (5) sign it
SignSign ==
  /\ signing.pc = "sign"
  /\ signing' = [ pc |-> "record", signerId |-> signing.signerId,
                  value |-> signing.value, before |-> signing.before,
                  keypair |-> signing.keypair,
                  signature |-> sign(signing.message, signing.keypair.secretKey) ]
  /\ UNCHANGED << bundle, addedAfterSign, merkle, call, store >>

\* (6), (7) record the signature on S and recompute the status
SignRecord(now) ==
  /\ signing.pc = "record"
  /\ bundle' = markSignerSigned(bundle, signing.signerId,
                 [ publicKey |-> formatPublicKey(signing.keypair.publicKey),
                   signatureImage |-> signing.value,
                   cryptoSignature |-> signing.signature ],
                 now)
  /\ signing' = Idle
  /\ UNCHANGED << addedAfterSign, merkle, call, store >>

\* a step of the operation fails, or the signer cancels: the operation ends
\* and nothing is undone (bundle.js has no snapshot or rollback)
SignAbort ==
  /\ signing.pc # "idle"
  /\ signing' = Idle
  /\ UNCHANGED << bundle, addedAfterSign, merkle, call, store >>

\* ------------------- SpecSign: prepare the bundle, then sign operations
\* The preparer adds signers and fields before the bundle is handed to the
\* signers: no sign operation is in flight and no signer has signed yet.
Preparing ==
  /\ signing.pc = "idle"
  /\ \A i \in 1..Len(bundle.signers) : ~bundle.signers[i].signed

PrepareAddSigner == Preparing /\ AddSigner
PrepareAddField == Preparing /\ AddField

StartSign ==
  \E signerId \in SignerIds, email \in Emails, password \in Passwords, value \in Values :
    SignStart(signerId, email, password, value)
BuildMessage == \E now \in NowValues : SignMessage(now)
RecordSignature == \E now \in NowValues : SignRecord(now)

NextSign ==
  \/ PrepareAddSigner
  \/ PrepareAddField
  \/ StartSign
  \/ SignDerive
  \/ SignHash
  \/ SignFill
  \/ BuildMessage
  \/ SignSign
  \/ RecordSignature
  \/ SignAbort

SpecSign == Init /\ [][NextSign]_vars

\* ------------------------------- SpecGrow: executions without removeSigner
\* The bundle operations of Spec except removeSigner; addedAfterSign records
\* that addSigner ran when some signer had already signed.
SomeSigned(b) == \E i \in 1..Len(b.signers) : b.signers[i].signed

GrowAddSigner ==
  /\ \E name \in Names, email \in Emails, now \in NowValues, rnd \in RandomSuffixes :
       AddSignerCall(name, email, now, rnd)
  /\ addedAfterSign' = (addedAfterSign \/ SomeSigned(bundle))
  /\ UNCHANGED << signing, merkle, call, store >>

NextGrow ==
  \/ GrowAddSigner
  \/ AddField
  \/ RemoveField
  \/ UpdateField
  \/ MarkSignerSigned
  \/ UpdateStatus

SpecGrow == Init /\ [][NextGrow]_vars

\* ------------------- SpecMerkle: build a tree, take a proof, verify it
\* The leaves are digests of small inputs. Between getProof and verifyProof
\* one thing may happen to what the verifier is handed: the leaf is replaced,
\* one proof entry's sibling hash or position hint is changed, or a further
\* leaf joins and the root is the one of the rebuilt tree.
MaxLeaves == 5
LeafDatas == { << 1 >>, << 2 >> }
LeafHashes == { hash(d) : d \in LeafDatas }
Positions == { "left", "right", "up" }

RECURSIVE LeafSeqs(_)
LeafSeqs(n) ==
  IF n = 0 THEN { <<>> }
  ELSE LET shorter == LeafSeqs(n - 1)
       IN shorter \cup { Append(l, h) : l \in { x \in shorter : Len(x) = n - 1 },
                                        h \in LeafHashes }

\* the hashes that occur in a tree
TreeNodes(tree) ==
  UNION { { tree.layers[j][k] : k \in 1..Len(tree.layers[j]) } : j \in 1..Len(tree.layers) }

MerkleBuildTree(leaves) ==
  /\ merkle.pc = "none"
  /\ merkle' = [ pc |-> "built", leaves |-> leaves, tree |-> buildTree(leaves) ]
  /\ UNCHANGED << bundle, signing, addedAfterSign, call, store >>

MerkleGetProof(index) ==
  /\ merkle.pc = "built"
  /\ index < Len(merkle.leaves)
  /\ merkle' = [ pc |-> "proved", leaves |-> merkle.leaves, tree |-> merkle.tree,
                 index |-> index,
                 leaf |-> merkle.leaves[index + 1],
                 proof |-> getProof(merkle.tree.layers, index),
                 root |-> merkle.tree.root,
                 change |-> "none" ]
  /\ UNCHANGED << bundle, signing, addedAfterSign, call, store >>

ReplaceLeaf(h) ==
  /\ merkle.pc = "proved" /\ merkle.change = "none"
  /\ h # merkle.leaf
  /\ merkle' = [ merkle EXCEPT !.leaf = h, !.change = "leaf" ]
  /\ UNCHANGED << bundle, signing, addedAfterSign, call, store >>

ChangeSiblingHash(k, h) ==
  /\ merkle.pc = "proved" /\ merkle.change = "none"
  /\ k \in 1..Len(merkle.proof)
  /\ bytesToHex(h) # merkle.proof[k].hash
  /\ merkle' = [ merkle EXCEPT !.proof[k].hash = bytesToHex(h), !.change = "hash" ]
  /\ UNCHANGED << bundle, signing, addedAfterSign, call, store >>

ChangePosition(k, p) ==
  /\ merkle.pc = "proved" /\ merkle.change = "none"
  /\ k \in 1..Len(merkle.proof)
  /\ p # merkle.proof[k].position
  /\ merkle' = [ merkle EXCEPT !.proof[k].position = p, !.change = "position" ]
  /\ UNCHANGED << bundle, signing, addedAfterSign, call, store >>

\* a further leaf joins: the tree is rebuilt and its root published, the
\* proof is the one issued before
LeafJoins(h) ==
  /\ merkle.pc = "proved" /\ merkle.change = "none"
  /\ Len(merkle.leaves) < MaxLeaves
  /\ merkle' = [ merkle EXCEPT !.root = buildTree(Append(merkle.leaves, h)).root,
                               !.change = "join" ]
  /\ UNCHANGED << bundle, signing, addedAfterSign, call, store >>

MerkleVerifyProof ==
  /\ merkle.pc = "proved"
  /\ merkle' = [ pc |-> "verified", leaves |-> merkle.leaves, tree |-> merkle.tree,
                 index |-> merkle.index, leaf |-> merkle.leaf,
                 proof |-> merkle.proof, root |-> merkle.root,
                 change |-> merkle.change,
                 result |-> verifyProof(merkle.leaf, merkle.proof, merkle.root) ]
  /\ UNCHANGED << bundle, signing, addedAfterSign, call, store >>

BuildTree == \E leaves \in LeafSeqs(MaxLeaves) : MerkleBuildTree(leaves)
GetProof == \E index \in 0..(MaxLeaves - 1) : MerkleGetProof(index)
MutateLeaf ==
  /\ merkle.pc = "proved"
  /\ \E h \in LeafHashes \cup TreeNodes(merkle.tree) : ReplaceLeaf(h)
MutateSiblingHash ==
  /\ merkle.pc = "proved"
  /\ \E k \in 1..MaxLeaves, h \in LeafHashes \cup TreeNodes(merkle.tree) :
        ChangeSiblingHash(k, h)
MutatePosition == \E k \in 1..MaxLeaves, p \in Positions : ChangePosition(k, p)
Join == \E h \in LeafHashes : LeafJoins(h)

NextMerkle ==
  \/ BuildTree
  \/ GetProof
  \/ MutateLeaf
  \/ MutateSiblingHash
  \/ MutatePosition
  \/ Join
  \/ MerkleVerifyProof

SpecMerkle == Init /\ [][NextMerkle]_vars

\* ---------- SpecCommit: commit to a bundle, tamper with it, recompute
\* Signers are added and marked signed; the Merkle root over the bundle's
\* leaves is computed and kept; then one thing in the stored bundle is
\* changed (the document payload, or one property of one signer record) and
\* the root is recomputed from the bundle and compared.
TamperedSigners(s) ==
  { [ s EXCEPT !.name = "mallory" ],
    [ s EXCEPT !.email = << "m", "@", "x" >> ],
    [ s EXCEPT !.color = "#000000" ],
    [ s EXCEPT !.signed = ~@ ],
    [ s EXCEPT !.signedAt = "1970-01-01T00:00:00.009Z" ],
    [ s EXCEPT !.publicKey = "ed25519:bb" ],
    [ s EXCEPT !.signatureImage = "data:image/gif" ],
    [ s EXCEPT !.cryptoSignature = "sig-bb" ] }

CommitAddSigner == merkle.pc = "none" /\ AddSigner
CommitMarkSignerSigned == merkle.pc = "none" /\ MarkSignerSigned

CommitRoot ==
  /\ merkle.pc = "none"
  /\ merkle' = [ pc |-> "committed", committed |-> bundle,
                 root |-> commitmentRoot(bundle) ]
  /\ UNCHANGED << bundle, signing, addedAfterSign, call, store >>

TamperDocument ==
  /\ merkle.pc = "committed"
  /\ \E data \in TamperedDatas :
       /\ data # bundle.document.data
       /\ bundle' = [ bundle EXCEPT !.document.data = data ]
  /\ merkle' = [ merkle EXCEPT !.pc = "tampered" ]
  /\ UNCHANGED << signing, addedAfterSign, call, store >>

TamperSigner ==
  /\ merkle.pc = "committed"
  /\ \E i \in 1..Len(bundle.signers) :
       \E t \in TamperedSigners(bundle.signers[i]) :
         bundle' = [ bundle EXCEPT !.signers[i] = t ]
  /\ merkle' = [ merkle EXCEPT !.pc = "tampered" ]
  /\ UNCHANGED << signing, addedAfterSign, call, store >>

RecomputeRoot ==
  /\ merkle.pc = "tampered"
  /\ merkle' = [ pc |-> "recomputed", committed |-> merkle.committed,
                 root |-> merkle.root,
                 recomputed |-> commitmentRoot(bundle) ]
  /\ UNCHANGED << bundle, signing, addedAfterSign, call, store >>

NextCommit ==
  \/ CommitAddSigner
  \/ CommitMarkSignerSigned
  \/ CommitRoot
  \/ TamperDocument
  \/ TamperSigner
  \/ RecomputeRoot

SpecCommit == Init /\ [][NextCommit]_vars

\* ----- SpecVerify: prepare, sign, commit; then the payload is tampered
\* The stored bundle's document payload is changed once after the root was
\* computed; the signatures are then verified against the stored bundle.
VerifySign == merkle.pc = "none" /\ NextSign
VerifyCommitRoot == signing.pc = "idle" /\ CommitRoot

NextVerify ==
  \/ VerifySign
  \/ VerifyCommitRoot
  \/ TamperDocument
  \/ RecomputeRoot

SpecVerify == Init /\ [][NextVerify]_vars

\* ---- SpecInterleave: other handlers run while a sign operation awaits
\* Every awaited step of the sign operation returns to the event loop, where
\* any other handler may run to completion. The bundle operations and
\* State.setBundle take no notice of an operation in flight, so each of them
\* is enabled at every suspension point. The executions explored hold one
\* such call per operation (it runs while the bundle is still as the
\* operation found it), and operations that start before any signer has
\* signed.
setBundle(newBundle) == newBundle

SetBundleCall(newBundle) ==
  /\ bundle' = setBundle(newBundle)
  /\ UNCHANGED << signing, addedAfterSign, merkle, call, store >>

InFlight == signing.pc # "idle" /\ bundle = signing.before

InterleaveStart ==
  /\ Preparing
  /\ \E signerId \in SignerIds, email \in Emails, value \in Values :
       SignStart(signerId, email, OwnPassword, value)
InterleaveAddSigner == InFlight /\ AddSigner
InterleaveRemoveSigner == InFlight /\ RemoveSigner
InterleaveAddField == InFlight /\ AddField
InterleaveRemoveField == InFlight /\ RemoveField
InterleaveUpdateField == InFlight /\ UpdateField
InterleaveSetBundle ==
  InFlight /\ \E pdfFile \in PdfFiles : SetBundleCall(create(pdfFile))

NextInterleave ==
  \/ PrepareAddSigner
  \/ PrepareAddField
  \/ InterleaveStart
  \/ SignDerive
  \/ SignHash
  \/ SignFill
  \/ BuildMessage
  \/ SignSign
  \/ RecordSignature
  \/ SignAbort
  \/ InterleaveAddSigner
  \/ InterleaveRemoveSigner
  \/ InterleaveAddField
  \/ InterleaveRemoveField
  \/ InterleaveUpdateField
  \/ InterleaveSetBundle

SpecInterleave == Init /\ [][NextInterleave]_vars

\* ======================================================================
\* Properties
\* ======================================================================
SignerIdx == 1..Len(bundle.signers)
FieldIdx == 1..Len(bundle.fields)

DistinctSignerIds ==
  \A i, j \in SignerIdx : bundle.signers[i].id = bundle.signers[j].id => i = j

AllSigned == \A i \in SignerIdx : bundle.signers[i].signed
AllRequiredFilled ==
  \A i \in FieldIdx : bundle.fields[i].required => bundle.fields[i].value # Null

\* status as section 4.4 words it, from the number of signers and of signed ones
SignedCount(signers) == Cardinality({ i \in 1..Len(signers) : signers[i].signed })
ExpectedStatus(signers) ==
  CASE Len(signers) = 0 -> "draft"
    [] Len(signers) > 0 /\ SignedCount(signers) = Len(signers) -> "completed"
    [] Len(signers) > 0 /\ SignedCount(signers) \in 1..(Len(signers) - 1) -> "in_progress"
    [] OTHER -> "draft"

Rank(status) ==
  CASE status = "draft" -> 0
    [] status = "in_progress" -> 1
    [] status = "completed" -> 2

\* C1: in every reachable bundle state, status = 'completed', "every signer has
\* signed" and "every required field has a non-null value" are equivalent.
\* Stated for the bundles in which none of the three is vacuous: at least
\* one signer and at least one required field.
C1_CompletedIffSignedIffFilled ==
  ( /\ Len(bundle.signers) > 0
    /\ \E i \in FieldIdx : bundle.fields[i].required )
  => /\ (bundle.status = "completed") <=> AllSigned
     /\ AllSigned <=> AllRequiredFilled

\* C2: after every bundle operation, status equals the value computed from
\* signers[].signed alone (stated for bundles whose signer ids are distinct).
C2_StatusIsFunctionOfSigners ==
  DistinctSignerIds => bundle.status = ExpectedStatus(bundle.signers)

\* C3: a markSignerSigned call leaves status = draft for zero signers,
\* completed when every signer has signed, in_progress when some but not all
\* have, draft otherwise.
C3_UpdateStatusAfterSign ==
  [][ (\E signerId \in SignerIds, signatureData \in SignatureDatas, now \in NowValues :
         MarkSignerSignedCall(signerId, signatureData, now))
      => bundle'.status = ExpectedStatus(bundle'.signers) ]_vars

\* C3 witness: of two signers one has signed and the status is in_progress
\* (the state after A of {A, B} signed).
C3_Witness ==
  /\ Len(bundle.signers) = 2
  /\ bundle.signers[1].signed
  /\ ~bundle.signers[2].signed
  /\ bundle.status = "in_progress"

\* C4 as claimed: in an execution without removeSigner (the signer set is
\* fixed or only grows) status never moves backward (stated for bundles
\* whose signer ids are distinct).
C4_NoRegressWithoutRemoval ==
  [][ DistinctSignerIds' => Rank(bundle'.status) >= Rank(bundle.status) ]_vars

\* C4 amended: in an execution without removeSigner in which no signer is
\* added once a signer has signed (the signer set is fixed from the first
\* signature on), status never moves backward.
C4_NoRegressFixedSigners ==
  [][ ~addedAfterSign' => Rank(bundle'.status) >= Rank(bundle.status) ]_vars

\* C4 witness: both of two signers have signed, the set was complete before
\* the first signature, and the status has arrived at completed.
C4_Witness ==
  /\ ~addedAfterSign
  /\ Len(bundle.signers) = 2
  /\ AllSigned
  /\ bundle.status = "completed"

\* C5: a signed signer has publicKey, cryptoSignature and signedAt non-null;
\* an unsigned signer has all three null.
C5_SignedIffRecorded ==
  \A i \in SignerIdx :
    LET s == bundle.signers[i]
    IN /\ s.signed =>
            s.publicKey # Null /\ s.cryptoSignature # Null /\ s.signedAt # Null
       /\ ~s.signed =>
            s.publicKey = Null /\ s.cryptoSignature = Null /\ s.signedAt = Null

C7_SignerMutatedOnce ==
  [][ \A i \in SignerIdx :
        ( /\ bundle.signers[i].signed
          /\ Len(bundle'.signers) = Len(bundle.signers)
          /\ bundle'.signers[i].id = bundle.signers[i].id )
        => bundle'.signers[i] = bundle.signers[i] ]_vars

\* C8: a field's value changes at most once, from null to non-null; once
\* non-null no operation changes or resets it.
C8_FieldValueSetOnce ==
  [][ \A i \in FieldIdx :
        ( /\ Len(bundle'.fields) = Len(bundle.fields)
          /\ bundle'.fields[i].id = bundle.fields[i].id
          /\ bundle.fields[i].value # Null )
        => bundle'.fields[i].value = bundle.fields[i].value ]_vars

\* C9: every field's signerId is the id of a signer in bundle.signers.
C9_FieldSignerExists ==
  \A i \in FieldIdx :
    \E j \in SignerIdx : bundle.signers[j].id = bundle.fields[i].signerId

\* C10: removeSigner(bundle, id) deletes the signers with that id and the
\* fields whose signerId is that id, keeps every other signer and field
\* unchanged in the same relative order, and no other operation deletes a
\* signer.
KeptPositions(seq, Drop(_)) == { i \in 1..Len(seq) : ~Drop(seq[i]) }
PositionAfter(kept, i) == Cardinality({ j \in kept : j <= i })
IsSameWithout(after, before, Drop(_)) ==
  LET kept == KeptPositions(before, Drop)
  IN /\ Len(after) = Cardinality(kept)
     /\ \A i \in kept : after[PositionAfter(kept, i)] = before[i]

C11_ProofRoundTrip ==
  (merkle.pc = "verified" /\ merkle.change = "none") => merkle.result = TRUE

\* C11 witness: the fifth of five leaves, promoted unpaired through two
\* layers, has been verified against the root.
C11_Witness ==
  /\ merkle.pc = "verified" /\ merkle.change = "none"
  /\ Len(merkle.leaves) = 5 /\ merkle.index = 4
  /\ Len(merkle.proof) = 1
  /\ merkle.result = TRUE

\* C12 as claimed: replacing the leaf by a different hash, or changing any
\* entry of the proof (its sibling hash or its position hint), makes
\* verifyProof return false.
C12_AnyChangeRejected ==
  (merkle.pc = "verified" /\ merkle.change \in {"leaf", "hash", "position"})
    => merkle.result = FALSE

\* C12 amended: replacing the leaf by a different hash, or the sibling hash
\* of any proof entry by a different hash, makes verifyProof return false.
C12_ChangedHashRejected ==
  (merkle.pc = "verified" /\ merkle.change \in {"leaf", "hash"})
    => merkle.result = FALSE

\* C12 witness: a proof of three entries with one sibling hash replaced has
\* been rejected.
C12_Witness ==
  /\ merkle.pc = "verified" /\ merkle.change = "hash"
  /\ Len(merkle.proof) = 3
  /\ merkle.result = FALSE

\* C13: hashNodes(a, b) = hashNodes(b, a) for all hashes a, b, and the root
\* is unchanged when the two members of a sibling pair of any layer are
\* swapped.
SwapPair(layer, k) ==
  [ i \in 1..Len(layer) |->
      IF i = 2 * k - 1 THEN layer[2 * k]
      ELSE IF i = 2 * k THEN layer[2 * k - 1]
      ELSE layer[i] ]

RootFrom(layer) == LET layers == buildLayers(layer) IN layers[Len(layers)][1]

C13_PairHashCommutes ==
  merkle.pc = "built" =>
    /\ \A a, b \in LeafHashes \cup TreeNodes(merkle.tree) :
         hashNodes(a, b) = hashNodes(b, a)
    /\ \A j \in 1..Len(merkle.tree.layers) :
         \A k \in 1..(Len(merkle.tree.layers[j]) \div 2) :
           RootFrom(SwapPair(merkle.tree.layers[j], k)) = merkle.tree.root

\* C13 witness: a tree over five leaves whose first two leaves differ and
\* whose second layer pairs two different nodes.
C13_Witness ==
  /\ merkle.pc = "built"
  /\ Len(merkle.leaves) = 5
  /\ merkle.leaves[1] # merkle.leaves[2]
  /\ merkle.tree.layers[2][1] # merkle.tree.layers[2][2]

\* C14: the result of verifyProof does not depend on the position hints:
\* for the leaf, root and sibling hashes at hand, every assignment of
\* 'left', 'right' or another value to the steps' position gives the same
\* boolean.
WithPositions(proof, hints) ==
  [ k \in 1..Len(proof) |-> [ hash |-> proof[k].hash, position |-> hints[k] ] ]

C14_PositionHintsIgnored ==
  merkle.pc = "proved" =>
    \A hints \in [ 1..Len(merkle.proof) -> Positions ] :
      verifyProof(merkle.leaf, WithPositions(merkle.proof, hints), merkle.root)
        = verifyProof(merkle.leaf, merkle.proof, merkle.root)

\* C14 witness: a proof of at least two entries, one of whose position hints
\* was changed, has been accepted.
C14_Witness ==
  /\ merkle.pc = "verified" /\ merkle.change = "position"
  /\ Len(merkle.proof) >= 2
  /\ merkle.result = TRUE

\* C15: a proof taken on the tree of L does not verify against the root of
\* the tree rebuilt over L with one more leaf appended.
C15_OldProofFailsAfterJoin ==
  (merkle.pc = "verified" /\ merkle.change = "join") => merkle.result = FALSE

\* C15 witness: a proof for the unpaired third of three leaves has been
\* rejected against the root of the four-leaf tree.
C15_Witness ==
  /\ merkle.pc = "verified" /\ merkle.change = "join"
  /\ Len(merkle.leaves) = 3 /\ merkle.index = 2
  /\ merkle.result = FALSE

\* C16: a change to the document bytes or to any part of a signer's record
\* (name, email, color, signed, signedAt, publicKey, signatureImage,
\* cryptoSignature) made after the root was computed gives a different root
\* when the leaves are recomputed.
C16_TamperingChangesRoot ==
  ( /\ merkle.pc = "recomputed"
    /\ \/ getPdfBytes(bundle) # getPdfBytes(merkle.committed)
       \/ bundle.signers # merkle.committed.signers )
  => merkle.recomputed # merkle.root

OwnPublicKey(s) == formatPublicKey(deriveKeypair(s.email, OwnPassword).publicKey)

\* C17: in an unmodified bundle, for every signer signed by the sign
\* operation, verify of the message rebuilt from the stored data (hash of
\* the document, S.email, S.signedAt) with the stored cryptoSignature and
\* publicKey returns true.
C17_StoredSignatureVerifies ==
  \A i \in SignerIdx : bundle.signers[i].signed => verifySigner(bundle, i)

C19_WrongCredentialsDetected ==
  \A i \in SignerIdx :
    ( /\ bundle.signers[i].signed
      /\ bundle.signers[i].publicKey # OwnPublicKey(bundle.signers[i]) )
    => ~verifySigner(bundle, i)

\* C20: while a sign operation is in flight, no other mutation of the bundle
\* (addSigner, removeSigner, addField, removeField, updateField,
\* State.setBundle) takes effect: a step that is not a step of the
\* operation leaves the bundle as it is.
C20_NoMutationWhileSigning ==
  [][ (signing.pc # "idle" /\ signing' = signing) => bundle' = bundle ]_vars


\* ------------------------------------------- finalizing (setCompletedPdf)
\* The bundle operations of Spec together with setCompletedPdf, which the
\* code lets a caller invoke on any bundle.
SetCompletedPdfCall(pdfBytes, now) ==
  bundle' = setCompletedPdf(bundle, pdfBytes, now)

SetCompletedPdf ==
  /\ \E pdfBytes \in CompletedPdfs, now \in NowValues :
       SetCompletedPdfCall(pdfBytes, now)
  /\ UNCHANGED << signing, addedAfterSign, merkle, call, store >>

NextFinalize ==
  \/ AddSigner
  \/ RemoveSigner
  \/ AddField
  \/ RemoveField
  \/ UpdateField
  \/ MarkSignerSigned
  \/ UpdateStatus
  \/ SetCompletedPdf

SpecFinalize == Init /\ [][NextFinalize]_vars

\* C21: after create, no bundle operation (addSigner, removeSigner, addField,
\* removeField, updateField, markSignerSigned, updateStatus, setCompletedPdf)
\* changes bundle.document.data, so getPdfBytes(bundle) and the document hash
\* stay what they were; a setCompletedPdf step changes completedDocument and
\* nothing else of the bundle.
C21_DocumentDataNeverChanges ==
  [][ /\ bundle'.document.data = bundle.document.data
      /\ getPdfBytes(bundle') = getPdfBytes(bundle)
      /\ sha256(getPdfBytes(bundle')) = sha256(getPdfBytes(bundle))
      /\ \A pdfBytes \in CompletedPdfs, now \in NowValues :
           SetCompletedPdfCall(pdfBytes, now) =>
             bundle' = [bundle EXCEPT
                          !.completedDocument = bundle'.completedDocument] ]_vars

C21_Witness ==
  /\ bundle.completedDocument # Null
  /\ \E i \in 1..Len(bundle.signers) : bundle.signers[i].signed
  /\ \E i \in 1..Len(bundle.fields) : bundle.fields[i].value # Null
  /\ bundle.status = "completed"
  /\ getPdfBytes(bundle) = <<"%PDF", "-1">>

\* C24: finalizing while some required field has no value is refused and
\* leaves completedDocument null; so in every reachable state completedDocument
\* is non-null only if every required field is filled.
C24_CompletedOnlyWhenFilled ==
  bundle.completedDocument # Null => isComplete(bundle)


\* ---------------------------------------------- querying a bundle
\* A bundle is built and its fields are filled, emptied (value "", an empty
\* capture) or reset, and isComplete is asked at any point.
EmptyUpdates == { [value |-> ""] }

ClearField ==
  /\ \E fieldId \in FieldIds, updates \in EmptyUpdates :
       UpdateFieldCall(fieldId, updates)
  /\ UNCHANGED << signing, addedAfterSign, merkle, call, store >>

IsComplete ==
  /\ call' = [ op |-> "isComplete", result |-> isComplete(bundle) ]
  /\ UNCHANGED << bundle, signing, addedAfterSign, merkle, store >>

NextQuery ==
  \/ AddSigner
  \/ AddField
  \/ RemoveField
  \/ UpdateField
  \/ ClearField
  \/ IsComplete

SpecQuery == Init /\ [][NextQuery]_vars

\* C23: isComplete(bundle) is true exactly when every field with
\* required = true has a non-null value; a bundle with no required field is
\* complete.
C23_IsCompleteIffRequiredNonNull ==
  [][ IsComplete =>
        /\ call'.result = TRUE <=>
              \A i \in FieldIdx :
                bundle.fields[i].required = TRUE => bundle.fields[i].value # Null
        /\ (\A i \in FieldIdx : bundle.fields[i].required = FALSE)
              => call'.result = TRUE ]_vars

C23_Witness ==
  /\ call.op = "isComplete"
  /\ call.result = TRUE
  /\ \E i \in FieldIdx : bundle.fields[i].required /\ bundle.fields[i].value = ""
  /\ \E i \in FieldIdx : ~bundle.fields[i].required /\ bundle.fields[i].value = Null


\* ------------------------------------------------- loading a saved bundle
\* The files a user may pick: saved bundles, whole or with the version,
\* the document or the document's data absent, null or empty.
SavedPdfFiles ==
  { [ name |-> "signed.pdf", size |-> 6, bytes |-> <<"%PDF", "-1">> ] }

SavedBundles ==
  { markSignerSigned(addSigner(create(pdfFile), name, email, now, rnd),
                     "s" \o ToString(now) \o rnd, signatureData, now) :
      pdfFile \in SavedPdfFiles, name \in Names, email \in { <<"a", "@", "x">> },
      now \in { 1 }, rnd \in RandomSuffixes,
      signatureData \in SignatureDatas }

ParsedVersions == { JUndefined, JNull, JString(""), JString(VERSION) }

ParsedDatas(data) == { JUndefined, JNull, JBase64(<<>>), JBase64(data) }

ParsedDocuments(document) ==
  { JUndefined, JNull, JObject([ name |-> document.name ]) }
  \cup { JObject([ name |-> document.name, size |-> document.size, data |-> d ]) :
           d \in ParsedDatas(document.data) \ {JUndefined} }

ParsedBundles ==
  { [ saved EXCEPT !.version = v, !.document = d ] :
      saved \in SavedBundles, v \in ParsedVersions,
      d \in UNION { ParsedDocuments(b.document) : b \in SavedBundles } }

\* the bundle object that load returned, as the rest of the model keeps it
asBundle(parsed) ==
  [ parsed EXCEPT !.version = parsed.version.value,
                  !.document = [ name |-> parsed.document.members.name,
                                 size |-> parsed.document.members.size,
                                 data |-> parsed.document.members.data.value ] ]

LoadCall(parsed) ==
  /\ call' = [ op |-> "load", result |-> load(parsed) ]
  /\ UNCHANGED bundle

Load ==
  /\ \E parsed \in ParsedBundles : LoadCall(parsed)
  /\ UNCHANGED << signing, addedAfterSign, merkle, store >>

\* the caller installs the bundle that load returned
InstallLoaded ==
  /\ call.op = "load"
  /\ "value" \in DOMAIN call.result
  /\ SetBundleCall(asBundle(call.result.value))

NextLoad ==
  \/ AddSigner
  \/ AddField
  \/ MarkSignerSigned
  \/ Load
  \/ InstallLoaded

SpecLoad == Init /\ [][NextLoad]_vars

\* a member is lacking when it is absent, null or empty
Lacking(v) ==
  \/ v.type \in { "undefined", "null" }
  \/ v.type = "string" /\ v.value = ""
  \/ v.type = "base64" /\ Len(v.value) = 0

\* C22: load fails with an error exactly when the parsed bundle lacks a
\* version, lacks a document or lacks document.data, and otherwise returns
\* the parsed bundle; when it fails no state is changed: the bundle in the
\* store, which may be one loaded before, stays as it was.
C22_LoadFailsIffLacking ==
  [][ \A parsed \in ParsedBundles :
        LoadCall(parsed) =>
          LET failed == "error" \in DOMAIN call'.result
          IN /\ failed <=> \/ Lacking(parsed.version)
                           \/ Lacking(parsed.document)
                           \/ Lacking(member(parsed.document, "data"))
             /\ ~failed => call'.result.value = parsed
             /\ failed => bundle' = bundle ]_vars

C22_Witness ==
  /\ call.op = "load"
  /\ "error" \in DOMAIN call.result
  /\ call.result.error = "Invalid bundle: missing document"
  /\ bundle.document.name = "signed.pdf"
  /\ Len(bundle.signers) = 2


DistinctFieldIds ==
  \A i, j \in FieldIdx : bundle.fields[i].id = bundle.fields[j].id => i = j

\* C25: in a bundle with signers S1 and S2 (ids of signers and of fields
\* pairwise distinct), a sign operation by S1 fills
\* S1's required fields and sets S1.signed = true, and leaves S2's record and
\* S2's fields as they were (S2's field value stays null); with S2 still
\* unsigned the status becomes in_progress.
C25_SignLeavesOtherSignerAlone ==
  [][ (DistinctSignerIds /\ DistinctFieldIds) =>
      /\ (SignFill \/ RecordSignature) =>
           /\ Len(bundle'.signers) = Len(bundle.signers)
           /\ Len(bundle'.fields) = Len(bundle.fields)
           /\ \A i \in SignerIdx :
                bundle.signers[i].id # signing.signerId
                  => bundle'.signers[i] = bundle.signers[i]
           /\ \A i \in FieldIdx :
                bundle.fields[i].signerId # signing.signerId
                  => bundle'.fields[i] = bundle.fields[i]
      /\ SignFill =>
           \A i \in FieldIdx :
             bundle'.fields[i].signerId = signing.signerId /\ bundle'.fields[i].required
               => bundle'.fields[i].value # Null
      /\ RecordSignature =>
           /\ \E i \in SignerIdx :
                bundle'.signers[i].id = signing.signerId /\ bundle'.signers[i].signed
           /\ (\E j \in SignerIdx : /\ bundle.signers[j].id # signing.signerId
                                     /\ ~bundle.signers[j].signed)
                => bundle'.status = "in_progress" ]_vars

C25_Witness ==
  /\ signing.pc = "idle"
  /\ Len(bundle.signers) = 2
  /\ DistinctSignerIds /\ DistinctFieldIds
  /\ bundle.signers[1].signed /\ bundle.signers[1].cryptoSignature # Undefined
  /\ ~bundle.signers[2].signed /\ bundle.signers[2].publicKey = Null
  /\ \E i \in FieldIdx : /\ bundle.fields[i].signerId = bundle.signers[1].id
                          /\ bundle.fields[i].required
                          /\ bundle.fields[i].value # Null
  /\ \E i \in FieldIdx : /\ bundle.fields[i].signerId = bundle.signers[2].id
                          /\ bundle.fields[i].required
                          /\ bundle.fields[i].value = Null
  /\ bundle.status = "in_progress"


\* ------------------------------------------- SpecCrypto: calls of crypto.js
\* deriveKeypair, createSigningMessage and verify, each called on inputs
\* drawn from bounded sets; call holds the arguments and the result.
BaseEmails == { <<"a", "@", "x">>, <<"b", "@", "x">> }

toUpperCaseChar(c) ==
  CASE c = "a" -> "A"
    [] c = "b" -> "B"
    [] c = "x" -> "X"
    [] OTHER -> c

\* the spellings of a three-character address: each letter in either case,
\* and a blank or none on either side
CaseVariants(s) ==
  { << c1, c2, c3 >> : c1 \in { s[1], toUpperCaseChar(s[1]) },
                       c2 \in { s[2], toUpperCaseChar(s[2]) },
                       c3 \in { s[3], toUpperCaseChar(s[3]) } }

Paddings == { <<>>, << " " >> }

EmailVariants(base) ==
  { l \o t \o r : l \in Paddings, t \in CaseVariants(base), r \in Paddings }

CryptoEmails == UNION { EmailVariants(b) : b \in BaseEmails }

\* document hashes (two bytes stand for the 32), and timestamps
HashBytes == { <<1, 35>>, <<18, 3>>, <<1, 3>> }
Timestamps == { toISOString(t) : t \in NowValues }

\* what verify is handed: signing messages, signatures and public keys,
\* genuine ones and byte strings that are neither
SigningMessages ==
  { createSigningMessage(sha256(pdfFile.bytes), e, t) :
      pdfFile \in PdfFiles, e \in Emails, t \in Timestamps }

Signatures ==
  { sign(m, kp.secretKey) : m \in SigningMessages, kp \in Keypairs }
  \cup MalformedSignatures \cup ShortSignatures

PublicKeys ==
  { kp.publicKey : kp \in Keypairs } \cup MalformedKeys \cup ShortKeys

DeriveKeypairCall(email, password) ==
  call' = [ op |-> "deriveKeypair", email |-> email, password |-> password,
            result |-> deriveKeypair(email, password) ]

CreateSigningMessageCall(documentHash, email, timestamp) ==
  call' = [ op |-> "createSigningMessage", documentHash |-> documentHash,
            email |-> email, timestamp |-> timestamp,
            result |-> createSigningMessage(join(bytesToHex(documentHash)),
                                            email, timestamp) ]

VerifyCall(message, signature, publicKey) ==
  call' = [ op |-> "verify", message |-> message, signature |-> signature,
            publicKey |-> publicKey,
            result |-> verifyOutcome(message, signature, publicKey) ]

DeriveKeypair ==
  /\ \E email \in CryptoEmails, password \in Passwords :
       DeriveKeypairCall(email, password)
  /\ UNCHANGED << bundle, signing, addedAfterSign, merkle, store >>

CreateSigningMessage ==
  /\ \E documentHash \in HashBytes, email \in CryptoEmails, timestamp \in Timestamps :
       CreateSigningMessageCall(documentHash, email, timestamp)
  /\ UNCHANGED << bundle, signing, addedAfterSign, merkle, store >>

Verify ==
  /\ \E message \in SigningMessages, signature \in Signatures, publicKey \in PublicKeys :
       VerifyCall(message, signature, publicKey)
  /\ UNCHANGED << bundle, signing, addedAfterSign, merkle, store >>

NextCrypto ==
  \/ DeriveKeypair
  \/ CreateSigningMessage
  \/ Verify

SpecCrypto == Init /\ [][NextCrypto]_vars

\* C26: deriveKeypair is deterministic and normalization-invariant: for every
\* e-mail address and password, every spelling of the address (letters in
\* either case, surrounding blanks) derives the same keypair.
C26_DeriveKeypairNormalizes ==
  call.op = "deriveKeypair" =>
    \A base \in BaseEmails :
      call.email \in EmailVariants(base) =>
        \A e \in EmailVariants(base) :
          deriveKeypair(e, call.password) = call.result

C26_Witness ==
  /\ call.op = "deriveKeypair"
  /\ call.email = << " ", "B", "@", "x", " " >>
  /\ call.result = deriveKeypair(<< "b", "@", "X" >>, "hunter2")

\* the number of places where the call of verify at hand differs from the
\* genuine triple (m, sign(m, sk), pk)
Differences(m, kp) ==
  Cardinality({ i \in 1..3 :
    << m, sign(m, kp.secretKey), kp.publicKey >>[i]
      # << call.message, call.signature, call.publicKey >>[i] })

\* C27: for every message m and derived keypair (pk, sk),
\* verify(m, sign(m, sk), pk) is true, and with one of m, the signature and
\* pk changed (to another byte string of the same length) verify is false.
C27_SignVerifyRoundTrip ==
  call.op = "verify" =>
    \A m \in SigningMessages, kp \in Keypairs :
      /\ Differences(m, kp) = 0 => call.result = [ value |-> TRUE ]
      /\ ( /\ Differences(m, kp) = 1
           /\ signatureLength(call.signature) = 64
           /\ keyLength(call.publicKey) = 32 )
           => call.result = [ value |-> FALSE ]

C27_Witness ==
  /\ call.op = "verify"
  /\ call.result = [ value |-> FALSE ]
  /\ \E m \in SigningMessages, kp1, kp2 \in Keypairs :
       /\ kp1 # kp2
       /\ call.message = m
       /\ call.signature = sign(m, kp1.secretKey)
       /\ call.publicKey = kp2.publicKey

\* C28: verify returns false, and does not throw, for a malformed signature
\* or public key of the right length (64 and 32 bytes); for a signature or a
\* public key of another length it reports an error instead of returning
\* true or false.
C28_WrongLengthIsAnError ==
  call.op = "verify" =>
    /\ ( /\ signatureLength(call.signature) = 64
         /\ keyLength(call.publicKey) = 32
         /\ \/ call.signature \in MalformedSignatures
            \/ call.publicKey \in MalformedKeys )
         => call.result = [ value |-> FALSE ]
    /\ ( \/ signatureLength(call.signature) # 64
         \/ keyLength(call.publicKey) # 32 )
         => "error" \in DOMAIN call.result

\* two spellings of one address
SameAddress(e1, e2) ==
  \E base \in BaseEmails : e1 \in EmailVariants(base) /\ e2 \in EmailVariants(base)

\* C29 (as the code has it): createSigningMessage is deterministic, and two
\* triples (documentHash, email, timestamp) encode to the same message only
\* if they have the same hash, the same timestamp and e-mail addresses that
\* are spellings of one address.
C29_InjectiveUpToNormalization ==
  call.op = "createSigningMessage" =>
    \A h \in HashBytes, e \in CryptoEmails, t \in Timestamps :
      createSigningMessage(join(bytesToHex(h)), e, t) = call.result
        <=> ( /\ h = call.documentHash
              /\ SameAddress(e, call.email)
              /\ t = call.timestamp )

C29_Witness ==
  /\ call.op = "createSigningMessage"
  /\ call.documentHash = <<1, 35>>
  /\ call.email = << "A", "@", "x", " " >>
  /\ call.result = createSigningMessage("0123", << "a", "@", "x" >>, call.timestamp)

\* C29: createSigningMessage is deterministic and no two distinct
\* (documentHash, email, timestamp) triples encode to the same message.
C29_InjectiveOnTriples ==
  call.op = "createSigningMessage" =>
    \A h \in HashBytes, e \in CryptoEmails, t \in Timestamps :
      createSigningMessage(join(bytesToHex(h)), e, t) = call.result
        => ( h = call.documentHash /\ e = call.email /\ t = call.timestamp )


\* C30: after any sequence of addSigner and addField calls, with removals
\* interleaved, the signer ids in bundle.signers are pairwise distinct and
\* the field ids in bundle.fields are pairwise distinct.
C30_IdsPairwiseDistinct ==
  /\ \A i, j \in SignerIdx :
       i # j => bundle.signers[i].id # bundle.signers[j].id
  /\ \A i, j \in FieldIdx :
       i # j => bundle.fields[i].id # bundle.fields[j].id


\* ------------------------------------- the public-key text, byte by byte
\* formatPublicKey and parsePublicKey on key bytes and characters: a key is
\* a sequence of KeyLength bytes (standing for the 32), a formatted key a
\* sequence of one-character strings.
KeyLength == 2
KeyByteValues == { 0, 9, 10, 171, 255 }
KeyBytes == [ 1..KeyLength -> KeyByteValues ]

KeyPrefix == << "e", "d", "2", "5", "5", "1", "9", ":" >>

startsWith(chars, prefix) ==
  /\ Len(chars) >= Len(prefix)
  /\ SubSeq(chars, 1, Len(prefix)) = prefix

slice(chars, start) == SubSeq(chars, start + 1, Len(chars))

formatPublicKeyText(publicKey) == KeyPrefix \o bytesToHex(publicKey)

\* parsePublicKey without the test of the prefix
parsePublicKeyText_noPrefixCheck(formatted) ==
  [ value |-> hexToBytes(slice(formatted, 8)) ]

parsePublicKeyText(formatted) ==
  IF ~startsWith(formatted, KeyPrefix)
  THEN [ error |-> "Invalid public key format" ]
  ELSE [ value |-> hexToBytes(slice(formatted, 8)) ]

\* strings handed to parsePublicKey: formatted keys, and the same with the
\* prefix in capitals, without its colon, after a blank, or cut off
FormattedKeys ==
  LET good == { formatPublicKeyText(pk) : pk \in KeyBytes }
  IN good
     \cup { << "E", "D" >> \o slice(f, 2) : f \in good }
     \cup { SubSeq(f, 1, 7) \o slice(f, 8) : f \in good }
     \cup { << " " >> \o f : f \in good }
     \cup { <<>>, SubSeq(KeyPrefix, 1, 7), KeyPrefix }

FormatPublicKeyCall(publicKey) ==
  call' = [ op |-> "formatPublicKey", publicKey |-> publicKey,
            result |-> formatPublicKeyText(publicKey) ]

ParsePublicKeyCall(formatted) ==
  call' = [ op |-> "parsePublicKey", formatted |-> formatted,
            result |-> parsePublicKeyText(formatted) ]

FormatPublicKey ==
  /\ \E publicKey \in KeyBytes : FormatPublicKeyCall(publicKey)
  /\ UNCHANGED << bundle, signing, addedAfterSign, merkle, store >>

ParsePublicKey ==
  /\ \E formatted \in FormattedKeys : ParsePublicKeyCall(formatted)
  /\ UNCHANGED << bundle, signing, addedAfterSign, merkle, store >>

NextKeyText ==
  \/ FormatPublicKey
  \/ ParsePublicKey

SpecKeyText == Init /\ [][NextKeyText]_vars

LowerHexDigits ==
  { "0", "1", "2", "3", "4", "5", "6", "7", "8", "9", "a", "b", "c", "d", "e", "f" }

BeginsWithPrefix(chars) ==
  /\ Len(chars) >= 8
  /\ \A i \in 1..8 : chars[i] = KeyPrefix[i]

\* C31: formatPublicKey(pk) is 'ed25519:' followed by the lower-case hex of
\* the key bytes (two digits a byte), parsePublicKey(formatPublicKey(pk)) = pk
\* for every key, and parsePublicKey raises an error for every string that
\* does not begin with the exact prefix 'ed25519:'.
C31_PublicKeyTextRoundTrip ==
  /\ call.op = "formatPublicKey" =>
       /\ BeginsWithPrefix(call.result)
       /\ Len(call.result) = 8 + 2 * Len(call.publicKey)
       /\ \A i \in 9..Len(call.result) : call.result[i] \in LowerHexDigits
       /\ \A i \in 1..Len(call.publicKey) :
            16 * hexDigitValue(call.result[7 + 2 * i])
              + hexDigitValue(call.result[8 + 2 * i]) = call.publicKey[i]
       /\ parsePublicKeyText(call.result) = [ value |-> call.publicKey ]
  /\ call.op = "parsePublicKey" =>
       /\ ~BeginsWithPrefix(call.formatted) => "error" \in DOMAIN call.result
       /\ \A pk \in KeyBytes :
            call.formatted = formatPublicKeyText(pk)
              => call.result = [ value |-> pk ]

C31_Witness ==
  /\ call.op = "parsePublicKey"
  /\ call.formatted = << "e", "d", "2", "5", "5", "1", "9", ":", "0", "9", "a", "b" >>
  /\ call.result = [ value |-> << 9, 171 >> ]

C31_WitnessRejected ==
  /\ call.op = "parsePublicKey"
  /\ call.formatted = << "E", "D", "2", "5", "5", "1", "9", ":", "0", "9", "a", "b" >>
  /\ "error" \in DOMAIN call.result


\* C32: buildTree ends for every non-empty leaf sequence: the first layer is
\* the leaves, a layer of n > 1 nodes is followed by one of ceil(n/2) nodes
\* whose last node, for odd n, is the last node of the layer below, copied
\* unchanged; the last layer is the first one with a single node, and that
\* node is the root. For a single leaf the root is the leaf and its proof is
\* empty.
C32_LayersHalveToRoot ==
  (merkle.pc = "built" /\ Len(merkle.leaves) > 0) =>
    LET layers == merkle.tree.layers
        height == Len(layers)
    IN /\ height >= 1
       /\ layers[1] = merkle.leaves
       /\ \A j \in 1..(height - 1) :
            LET n == Len(layers[j])
            IN /\ n > 1
               /\ Len(layers[j + 1]) = (n + 1) \div 2
               /\ n % 2 = 1 => layers[j + 1][(n + 1) \div 2] = layers[j][n]
               /\ \A k \in 1..(n \div 2) :
                    layers[j + 1][k] = hashNodes(layers[j][2 * k - 1], layers[j][2 * k])
       /\ Len(layers[height]) = 1
       /\ merkle.tree.root = layers[height][1]
       /\ Len(merkle.leaves) = 1 =>
            /\ height = 1
            /\ merkle.tree.root = merkle.leaves[1]
            /\ getProof(layers, 0) = <<>>

C32_Witness ==
  /\ merkle.pc = "built"
  /\ Len(merkle.leaves) = 5
  /\ Len(merkle.tree.layers) = 4
  /\ merkle.tree.layers[2][3] = merkle.leaves[5]
  /\ merkle.tree.layers[3][2] = merkle.leaves[5]
  /\ merkle.tree.root = hashNodes(merkle.tree.layers[3][1], merkle.leaves[5])


\* ------------- SpecMerkleNode: an inner node of the tree shown as a leaf
\* After getProof, the prover may show, in place of the leaf, the node on the
\* leaf's path at a higher layer, with the part of the sibling path that
\* lies above that node.
PresentNode(j) ==
  /\ merkle.pc = "proved" /\ merkle.change = "none"
  /\ j \in 1..(Len(merkle.tree.layers) - 1)
  /\ LET idx == merkle.index \div (2 ^ j)
     IN merkle' = [ merkle EXCEPT !.leaf = merkle.tree.layers[j + 1][idx + 1],
                                  !.proof = getProofFrom(merkle.tree.layers, j, idx),
                                  !.change = "node" ]
  /\ UNCHANGED << bundle, signing, addedAfterSign, call, store >>

ShowNode ==
  /\ merkle.pc = "proved"
  /\ \E j \in 1..MaxLeaves : PresentNode(j)

NextMerkleNode ==
  \/ BuildTree
  \/ GetProof
  \/ ShowNode
  \/ MerkleVerifyProof

SpecMerkleNode == Init /\ [][NextMerkleNode]_vars

\* C33: for a tree built over the leaf sequence L, verifyProof(h, p, root)
\* is true, for a proof p made of node hashes of the tree, only if h is one
\* of the leaves of L: the hash of a pair shown as a leaf, with the rest of
\* the sibling path, is not accepted.
C33_OnlyLeavesVerify ==
  ( /\ merkle.pc = "verified"
    /\ merkle.result = TRUE
    /\ \A k \in 1..Len(merkle.proof) :
         hexToBytes(merkle.proof[k].hash) \in TreeNodes(merkle.tree) )
  => \E i \in 1..Len(merkle.leaves) : merkle.leaves[i] = merkle.leaf


\* C34: the two completeness views of a signer agree in every reachable
\* bundle: whenever isSignerComplete(bundle, s) is true, getUnsignedFields(
\* bundle, s) holds no required field, for every field value that updateField
\* can store.
C34_CompletenessViewsAgree ==
  \A s \in SignerIds :
    isSignerComplete(bundle, s) =>
      LET unsigned == getUnsignedFields(bundle, s)
      IN \A i \in 1..Len(unsigned) : ~unsigned[i].required


UnknownFieldId(fieldId) == \A i \in FieldIdx : bundle.fields[i].id # fieldId
UnknownSignerId(signerId) == \A i \in SignerIdx : bundle.signers[i].id # signerId

SignersAndFieldsKept ==
  bundle'.signers = bundle.signers /\ bundle'.fields = bundle.fields

\* C35: an operation that names an id not present in the bundle changes no
\* signer and no field: updateField and removeField with an unknown field id,
\* removeSigner and markSignerSigned with an unknown signer id leave
\* bundle.signers and bundle.fields unchanged (markSignerSigned still
\* recomputes the status from the unchanged signers).
C35_UnknownIdChangesNothing ==
  [][ /\ \A fieldId \in FieldIds :
           UnknownFieldId(fieldId) =>
             /\ \A updates \in Updates :
                  UpdateFieldCall(fieldId, updates) => SignersAndFieldsKept
             /\ RemoveFieldCall(fieldId) => SignersAndFieldsKept
      /\ \A signerId \in SignerIds :
           UnknownSignerId(signerId) =>
             /\ RemoveSignerCall(signerId) => SignersAndFieldsKept
             /\ \A signatureData \in SignatureDatas, now \in NowValues :
                  MarkSignerSignedCall(signerId, signatureData, now) =>
                    /\ SignersAndFieldsKept
                    /\ bundle'.status = updateStatus(bundle).status ]_vars


\* ------------------------------------------------ state.js: the State store
\* A listener is a callback of the application; what matters of it here is
\* whether it throws when it is called. store.invoked and store.errors are
\* the calls made and the errors caught (console.error) by the last notify.
Listeners == { "render", "broken", "autosave" }
ThrowingListeners == { "broken" }

\* subscribe(listener): Set.add keeps one entry per listener, in insertion
\* order; the returned function deletes the listener
subscribe(s, listener) ==
  [ s EXCEPT !.listeners = IF \E i \in 1..Len(@) : @[i] = listener
                           THEN @ ELSE Append(@, listener),
             !.handles = @ \cup { listener } ]

unsubscribe(s, listener) ==
  [ s EXCEPT !.listeners = SelectSeq(@, LAMBDA l : l # listener) ]

\* listeners.forEach from entry i on: each listener is called inside try,
\* a throw is caught and logged
RECURSIVE notifyFrom(_, _)
notifyFrom(s, i) ==
  IF i > Len(s.listeners) THEN s
  ELSE LET listener == s.listeners[i]
           called == [ s EXCEPT !.invoked = Append(@, listener) ]
       IN notifyFrom(IF listener \in ThrowingListeners
                     THEN [ called EXCEPT !.errors = Append(@, listener) ]
                     ELSE called,
                     i + 1)

\* notify without try/catch: the first throw ends the loop
notify_noCatch(s) ==
  LET throwing == { i \in 1..Len(s.listeners) : s.listeners[i] \in ThrowingListeners }
      last == IF throwing = {} THEN Len(s.listeners)
              ELSE CHOOSE i \in throwing : \A j \in throwing : i <= j
  IN [ s EXCEPT !.invoked = SubSeq(s.listeners, 1, last), !.errors = <<>> ]

notify(s) == notifyFrom([ s EXCEPT !.invoked = <<>>, !.errors = <<>> ], 1)

\* update(updater): the updaters at hand
Updaters == { "selectFirstField", "openSignTool" }
applyUpdater(state, updater) ==
  CASE updater = "selectFirstField" -> [ state EXCEPT !.ui.selectedField = "f1k3x9p" ]
    [] updater = "openSignTool" -> [ state EXCEPT !.ui.activeTool = "signature" ]

update(s, updater) ==
  notify([ s EXCEPT !.state = applyUpdater(@, updater) ])

\* set(path, value): the paths at hand
Paths == { "ui.mode", "ui.activeTool" }
set(s, path, value) ==
  notify(CASE path = "ui.mode" -> [ s EXCEPT !.state.ui.mode = value ]
           [] path = "ui.activeTool" -> [ s EXCEPT !.state.ui.activeTool = value ])

reset(s) == notify([ s EXCEPT !.state = InitialState ])

setMode(s, mode) ==
  notify([ s EXCEPT !.state.ui.mode = mode,
                    !.state.ui.selectedField = Null,
                    !.state.ui.activeTool = Null ])

Modes == { "prepare", "sign" }
Tools == { "signature", Null }
BundleNames == { pdfFile.name : pdfFile \in PdfFiles }

Subscribe ==
  /\ \E listener \in Listeners : store' = subscribe(store, listener)
  /\ UNCHANGED << bundle, signing, addedAfterSign, merkle, call >>

\* an unsubscribe function that subscribe returned is called
Unsubscribe ==
  /\ \E listener \in store.handles : store' = unsubscribe(store, listener)
  /\ UNCHANGED << bundle, signing, addedAfterSign, merkle, call >>

Update ==
  /\ \E updater \in Updaters : store' = update(store, updater)
  /\ UNCHANGED << bundle, signing, addedAfterSign, merkle, call >>

Set ==
  /\ \E path \in Paths, value \in Modes \cup Tools :
       /\ path = "ui.mode" => value \in Modes
       /\ path = "ui.activeTool" => value \in Tools
       /\ store' = set(store, path, value)
  /\ UNCHANGED << bundle, signing, addedAfterSign, merkle, call >>

SetMode ==
  /\ \E mode \in Modes : store' = setMode(store, mode)
  /\ UNCHANGED << bundle, signing, addedAfterSign, merkle, call >>

SetBundle ==
  /\ \E name \in BundleNames :
       store' = notify([ store EXCEPT !.state.bundle = setBundle(name) ])
  /\ UNCHANGED << bundle, signing, addedAfterSign, merkle, call >>

Reset ==
  /\ store' = reset(store)
  /\ UNCHANGED << bundle, signing, addedAfterSign, merkle, call >>

NextStore ==
  \/ Subscribe
  \/ Unsubscribe
  \/ Update
  \/ Set
  \/ SetMode
  \/ SetBundle
  \/ Reset

SpecStore == Init /\ [][NextStore]_vars

\* how often the last notification called listener
Invocations(s, listener) ==
  Cardinality({ i \in 1..Len(s.invoked) : s.invoked[i] = listener })

Subscribed(listener) ==
  \E i \in 1..Len(store.listeners) : store.listeners[i] = listener

Mutator == Update \/ Set \/ SetMode \/ SetBundle \/ Reset

\* C36: every State mutator applies its change and then calls each currently
\* subscribed listener exactly once; a listener that throws does not keep the
\* remaining listeners from being called and does not undo the mutation; a
\* listener whose unsubscribe function has been called (and that has not
\* subscribed again) is not called by any later mutation.
C36_MutatorNotifiesEachListenerOnce ==
  [][ Mutator =>
        /\ \A listener \in Listeners :
             Invocations(store', listener) = IF Subscribed(listener) THEN 1 ELSE 0
        /\ store'.invoked = store.listeners
        /\ store'.listeners = store.listeners
        /\ \A updater \in Updaters :
             store' = update(store, updater)
               => store'.state = applyUpdater(store.state, updater)
        /\ \A mode \in Modes :
             /\ store' = set(store, "ui.mode", mode) => store'.state.ui.mode = mode
             /\ store' = setMode(store, mode) =>
                  store'.state.ui = [ mode |-> mode, selectedField |-> Null,
                                      activeTool |-> Null ]
        /\ \A tool \in Tools :
             store' = set(store, "ui.activeTool", tool)
               => store'.state.ui.activeTool = tool
        /\ Reset => store'.state = InitialState
        /\ SetBundle => store'.state.bundle \in BundleNames ]_vars

C36_Witness ==
  /\ store.listeners = << "broken", "render" >>
  /\ "autosave" \in store.handles
  /\ store.invoked = << "broken", "render" >>
  /\ store.errors = << "broken" >>
  /\ store.state.ui.mode = "sign"
  /\ store.state.bundle # Null

====
